---------------------------- MODULE Spec2Model ----------------------------
(***************************************************************************)
(* Model of the "format GraphQL operations in document" command of         *)
(* vscode-reasonml-graphql (src/src/extension.ts): formatDocument,         *)
(* prettify, padOperation, findOperationPadding, restoreOperationPadding.  *)
(*                                                                         *)
(* A text is a sequence of one-character strings.  The whitespace class is *)
(* JavaScript's \s restricted to the characters the model uses, the word   *)
(* class is \w restricted likewise.                                        *)
(***************************************************************************)
EXTENDS Integers, Sequences, FiniteSets, TLC

VARIABLES
    activeTextEditor,  \* window.activeTextEditor is defined
    languageId,        \* textEditor.document.languageId
    doc,               \* the live text of the document
    blankFormats,      \* the bundled formatter returns "" for blank input (else it throws)
    pc,                \* "idle" | "loop": position inside formatDocument
    sources,           \* result of extractGraphQLSources for this invocation
    idx,               \* forEach position (1-based)
    edits,             \* editBuilder.replace calls queued in this invocation
    infoMessages,      \* fragments for which showInformationMessage was called
    errorMessages,     \* number of showErrorMessage calls
    prettifyCalls,     \* fragments whose content was passed to prettify
    extractCalls,      \* number of extractGraphQLSources calls
    transactions,      \* number of edit transactions applied to the document
    snapshot,          \* document text when the current invocation started
    history            \* document text after each completed invocation

formatVars == <<activeTextEditor, languageId, doc, blankFormats, pc, sources, idx,
                edits, infoMessages, errorMessages, prettifyCalls, extractCalls,
                transactions, snapshot, history>>

\* one call of a function of extensionUtils
VARIABLES
    uOp,               \* the function called, "none" before the call
    uOperation,        \* its text argument (str, operation, initialOperation)
    uFormatted,        \* the first argument of restoreOperationPadding
    uResult            \* what the call returned

utilVars == <<uOp, uOperation, uFormatted, uResult>>

\* loadSchema.ts: the outcome each loader of the list gives, whether the root
\* directory can be read, the function called, the position in it, the loop
\* counter, the loaders invoked so far, those not yet resolved, the local
\* rawSchema, and what loadRawSchema and loadFullSchema gave back
VARIABLES
    loaders, readdirOk, entry, schemaPc, loaderIdx, invoked, running,
    rawSchema, rawReturn, fullReturn

schemaVars ==
    <<loaders, readdirOk, entry, schemaPc, loaderIdx, invoked, running,
      rawSchema, rawReturn, fullReturn>>

\* addGraphQLComponent.ts: the component type asked for, the position in
\* addReasonRelayComponent, the calls made so far, what the quick pick and the
\* explorer command resolved to
VARIABLES addType, addPc, events, pick, edited

addVars == <<addType, addPc, events, pick, edited>>

vars == <<formatVars, utilVars, schemaVars, addVars>>

---------------------------------------------------------------------------
(* Bounds of the model *)

MaxLead == 3
MaxTrail == 2
MaxFrags == 3
MaxRuns == 2

---------------------------------------------------------------------------
(* Characters and character classes *)

SP == " "
NL == "\n"

\* JavaScript \s, restricted to the whitespace the model's texts contain
IsSpace(c) == c \in {" ", "\n", "\t", "\r"}

\* JavaScript \w, restricted to the letters the model's texts contain
IsWord(c) == c \in {"q", "u", "e", "r", "y", "i", "d", "F", "o", "x", "_"}

---------------------------------------------------------------------------
(* String primitives of the JavaScript runtime used by the code *)

RECURSIVE repeat(_, _)
\* c.repeat(n)
repeat(c, n) == IF n <= 0 THEN <<>> ELSE <<c>> \o repeat(c, n - 1)

RECURSIVE wsPrefixLen(_, _)
\* length of the longest whitespace run of s starting at position p
wsPrefixLen(s, p) ==
    IF p > Len(s) \/ ~IsSpace(s[p]) THEN 0 ELSE 1 + wsPrefixLen(s, p + 1)

RECURSIVE wsSuffixLen(_, _)
\* length of the longest whitespace run of s ending at position p
wsSuffixLen(s, p) ==
    IF p < 1 \/ ~IsSpace(s[p]) THEN 0 ELSE 1 + wsSuffixLen(s, p - 1)

RECURSIVE splitFrom(_, _, _)
\* s.split("\n") continued at position p with the current piece cur
splitFrom(s, p, cur) ==
    IF p > Len(s) THEN <<cur>>
    ELSE IF s[p] = NL THEN <<cur>> \o splitFrom(s, p + 1, <<>>)
    ELSE splitFrom(s, p + 1, Append(cur, s[p]))

\* s.split("\n")
split(s) == splitFrom(s, 1, <<>>)

RECURSIVE join(_, _)
\* pieces.join(sep)
join(pieces, sep) ==
    IF Len(pieces) = 0 THEN <<>>
    ELSE IF Len(pieces) = 1 THEN pieces[1]
    ELSE pieces[1] \o sep \o join(Tail(pieces), sep)

\* array.pop() with undefined read as the empty string by the "|| ''" that follows
popOrEmpty(arr) == IF Len(arr) = 0 THEN <<>> ELSE arr[Len(arr)]

\* str.replace(/^\s+|\s+$/g, "")
trim(s) ==
    LET a == wsPrefixLen(s, 1)
        b == wsSuffixLen(s, Len(s))
    IN  IF a = Len(s) THEN <<>> ELSE SubSeq(s, a + 1, Len(s) - b)

\* mutant: the test /^[ ]+$/ (line breaks are not taken for whitespace)
isBlankBlock_spacesOnly(content) ==
    Len(content) > 0 /\ \A k \in 1..Len(content) : content[k] = SP

\* /^[\s]+$/g.test(content)
isBlankBlock(content) == Len(content) > 0 /\ wsPrefixLen(content, 1) = Len(content)

---------------------------------------------------------------------------
(* The external formatter: prettier.format(str, {parser: "graphql"}),      *)
(* for documents made of "query" operations and anonymous selection sets   *)
(* whose fields are names with optional nested selection sets.             *)

Query == <<"q", "u", "e", "r", "y">>
Foo == <<"F", "o", "o">>
Id == <<"i", "d">>

Failure == [ok |-> FALSE, text |-> <<>>]

\* the token under construction is put on the token list
flush(acc, cur) == IF Len(cur.w) = 0 THEN acc ELSE Append(acc, cur)

RECURSIVE lex(_, _, _, _, _)
\* the lexer: tokens of s from position p on; each token carries the number
\* of line breaks in the whitespace that precedes it
lex(s, p, acc, cur, nl) ==
    IF p > Len(s) THEN flush(acc, cur)
    ELSE LET c == s[p] IN
         IF IsSpace(c)
         THEN lex(s, p + 1, flush(acc, cur), [w |-> <<>>, nl |-> 0],
                  (IF Len(cur.w) = 0 THEN nl ELSE 0) + (IF c = NL THEN 1 ELSE 0))
         ELSE IF IsWord(c)
         THEN IF Len(cur.w) = 0
              THEN lex(s, p + 1, acc, [w |-> <<c>>, nl |-> nl], 0)
              ELSE lex(s, p + 1, acc, [cur EXCEPT !.w = Append(@, c)], 0)
         ELSE lex(s, p + 1,
                  Append(flush(acc, cur),
                         [w |-> <<c>>, nl |-> IF Len(cur.w) = 0 THEN nl ELSE 0]),
                  [w |-> <<>>, nl |-> 0], 0)

isName(w) == Len(w) > 0 /\ IsWord(w[1])

RECURSIVE printTokens(_, _, _, _, _)
\* the parser and printer: one pass over the tokens, depth is the nesting of
\* selection sets, prev the kind of the previous token
printTokens(toks, p, depth, prev, out) ==
    IF p > Len(toks)
    THEN IF depth = 0 /\ prev = "close"
         THEN [ok |-> TRUE, text |-> out \o <<NL>>]
         ELSE Failure
    ELSE LET w == toks[p].w
             \* a blank line after a definition or a selection is kept (one)
             sep == IF toks[p].nl >= 2 THEN <<NL, NL>> ELSE <<NL>>
         IN
         IF depth = 0 /\ prev \in {"start", "close"}
         THEN LET lead == IF prev = "close" THEN sep ELSE <<>> IN
              IF w = <<"{">>
              THEN printTokens(toks, p + 1, 1, "open", out \o lead \o <<"{">>)
              ELSE IF w = Query
              THEN printTokens(toks, p + 1, 0, "keyword", out \o lead \o Query)
              ELSE Failure
         ELSE IF depth = 0 /\ prev = "keyword"
         THEN IF w = <<"{">>
              THEN printTokens(toks, p + 1, 1, "open", out \o <<SP, "{">>)
              ELSE IF isName(w)
              THEN printTokens(toks, p + 1, 0, "name", out \o <<SP>> \o w)
              ELSE Failure
         ELSE IF depth = 0
         THEN IF w = <<"{">>
              THEN printTokens(toks, p + 1, 1, "open", out \o <<SP, "{">>)
              ELSE Failure
         ELSE IF isName(w)
         THEN printTokens(toks, p + 1, depth, "field",
                  out \o (IF prev = "open" THEN <<NL>> ELSE sep)
                      \o repeat(SP, 2 * depth) \o w)
         ELSE IF w = <<"{">> /\ prev = "field"
         THEN printTokens(toks, p + 1, depth + 1, "open", out \o <<SP, "{">>)
         ELSE IF w = <<"}">> /\ prev \in {"field", "close"}
         THEN printTokens(toks, p + 1, depth - 1, "close",
                  out \o <<NL>> \o repeat(SP, 2 * (depth - 1)) \o <<"}">>)
         ELSE Failure

\* prettier.format(str, {parser: "graphql", plugins: [parserGraphql]})
prettierFormat(str) ==
    IF blankFormats /\ Len(trim(str)) = 0
    THEN [ok |-> TRUE, text |-> <<>>]
    ELSE printTokens(lex(str, 1, <<>>, [w |-> <<>>, nl |-> 0], 0), 1, 0, "start", <<>>)

---------------------------------------------------------------------------
(* extensionUtils: prettify, padOperation, findOperationPadding,           *)
(* restoreOperationPadding                                                 *)

\* prettify(str): the formatter's output trimmed; a formatter error propagates
\* mutant: the formatter's output is returned as it is
prettify_untrimmed(str) == prettierFormat(str)

prettify(str) ==
    LET r == prettierFormat(str)
    IN  IF r.ok THEN [ok |-> TRUE, text |-> trim(r.text)] ELSE Failure

\* operation.split("\n").map(s => " ".repeat(indentation) + s).join("\n")
\* mutant: empty lines are left without indentation
padOperation_skipBlank(operation, indentation) ==
    LET lines == split(operation)
    IN  join([k \in 1..Len(lines) |->
                IF Len(lines[k]) = 0 THEN <<>>
                ELSE repeat(SP, indentation) \o lines[k]], <<NL>>)

padOperation(operation, indentation) ==
    LET lines == split(operation)
    IN  join([k \in 1..Len(lines) |-> repeat(SP, indentation) \o lines[k]], <<NL>>)

\* operation.match(/^[\s]*(?=[\w])/g) || []
matchInitialWhitespace(operation) ==
    LET n == wsPrefixLen(operation, 1)
    IN  IF n < Len(operation) /\ IsWord(operation[n + 1])
        THEN <<SubSeq(operation, 1, n)>>
        ELSE <<>>

\* operation.match(/[\s]*$/g) || []: the trailing run, then the empty match
\* at the end of the input when the run is not empty
matchEndingWhitespace(operation) ==
    LET n == wsSuffixLen(operation, Len(operation))
    IN  IF n > 0
        THEN <<SubSeq(operation, Len(operation) - n + 1, Len(operation)), <<>>>>
        ELSE << <<>> >>

\* mutant: the whole leading whitespace is measured, not its last line
findOperationPadding_wholeRun(operation) ==
    Len(popOrEmpty(matchInitialWhitespace(operation)))

findOperationPadding(operation) ==
    LET initialWhitespace == popOrEmpty(matchInitialWhitespace(operation))
        firstRelevantLine == popOrEmpty(split(initialWhitespace))
    IN  Len(firstRelevantLine)

restoreOperationPadding(operation, initialOperation) ==
    LET endingWhitespace == join(matchEndingWhitespace(initialOperation), <<>>)
    IN  <<NL>> \o padOperation(operation, findOperationPadding(initialOperation))
             \o endingWhitespace

---------------------------------------------------------------------------
(* The host document: positions are (line, character) pairs, offsets count *)
(* the characters before a position                                        *)

RECURSIVE countNL(_, _)
\* number of line breaks among the first n characters of text
countNL(text, n) ==
    IF n <= 0 THEN 0 ELSE (IF text[n] = NL THEN 1 ELSE 0) + countNL(text, n - 1)

RECURSIVE lineStart(_, _)
\* offset of the first character of the line that holds offset n
lineStart(text, n) ==
    IF n <= 0 THEN 0 ELSE IF text[n] = NL THEN n ELSE lineStart(text, n - 1)

RECURSIVE lineOffset(_, _, _)
\* offset of the first character of line number line (0-based), scanning from p
lineOffset(text, line, p) ==
    IF line = 0 THEN p - 1
    ELSE IF p > Len(text) THEN Len(text)
    ELSE lineOffset(text, IF text[p] = NL THEN line - 1 ELSE line, p + 1)

RECURSIVE lineLength(_, _)
\* number of characters from offset off to the end of its line
lineLength(text, off) ==
    IF off >= Len(text) \/ text[off + 1] = NL THEN 0 ELSE 1 + lineLength(text, off + 1)

\* TextDocument.lineCount
lineCount(text) == countNL(text, Len(text)) + 1

\* TextDocument.positionAt(offset)
positionAt(text, off) ==
    [line |-> countNL(text, off), character |-> off - lineStart(text, off)]

\* TextDocument.offsetAt(validatePosition(position)): a line past the end is
\* the end of the document, a character past the end of its line is that end
offsetAt(text, pos) ==
    IF pos.line >= lineCount(text) THEN Len(text)
    ELSE LET s == lineOffset(text, pos.line, 1)
             n == lineLength(text, s)
         IN  s + (IF pos.character > n THEN n ELSE pos.character)

OpenTag == <<"{", "|">>
CloseTag == <<"|", "}">>

RECURSIVE findTag(_, _, _)
\* first position >= p where tag starts in text, 0 if none
findTag(text, tag, p) ==
    IF p + 1 > Len(text) THEN 0
    ELSE IF text[p] = tag[1] /\ text[p + 1] = tag[2] THEN p
    ELSE findTag(text, tag, p + 1)

RECURSIVE scanTags(_, _)
\* the TAG sources of text from position p on, in document order
scanTags(text, p) ==
    LET q == findTag(text, OpenTag, p)
        r == IF q = 0 THEN 0 ELSE findTag(text, CloseTag, q + 2)
    IN  IF q = 0 \/ r = 0 THEN <<>>
        ELSE <<[type |-> "TAG",
                content |-> SubSeq(text, q + 2, r - 1),
                start |-> positionAt(text, q + 1),
                end |-> positionAt(text, r - 1)]>> \o scanTags(text, r + 2)

\* extractGraphQLSources(languageId, text)
extractGraphQLSources(lang, text) ==
    IF lang = "graphql"
    THEN <<[type |-> "FULL_DOCUMENT", content |-> text,
            start |-> positionAt(text, 0), end |-> positionAt(text, Len(text))]>>
    ELSE IF lang = "reason" THEN scanTags(text, 1)
    ELSE <<>>

RECURSIVE applyFrom(_, _, _)
\* text with the replacements es[1..n] made, last one first, at the offsets of
\* the text the edit callback saw
applyFrom(text, es, n) ==
    IF n = 0 THEN text
    ELSE LET a == offsetAt(text, es[n].start)
             b == offsetAt(text, es[n].end)
             rest == applyFrom(text, es, n - 1)
         IN  \* earlier replacements end at or before a: rest changes only before a
             SubSeq(rest, 1, Len(rest) - (Len(text) - a)) \o es[n].text
                 \o SubSeq(text, b + 1, Len(text))

\* the edit transaction of TextEditor.edit: every queued replacement is made
\* at once; overlapping ranges are rejected and nothing changes
applyEdits(text, es) ==
    IF \E j \in 1..Len(es) :
          \/ offsetAt(text, es[j].start) > offsetAt(text, es[j].end)
          \/ j < Len(es) /\ offsetAt(text, es[j].end) > offsetAt(text, es[j + 1].start)
    THEN text
    ELSE applyFrom(text, es, Len(es))

---------------------------------------------------------------------------
(* The documents the command is started on *)

\* every whitespace text of at most n spaces and line breaks
WsSeqs(n) == UNION {[1..k -> {SP, NL}] : k \in 0..n}

\* operation texts: well formed, already formatted, malformed, empty
Bodies ==
    { Query \o <<SP>> \o Foo \o <<"{">> \o Id \o <<"}">>,
      Query \o <<"{">> \o Id \o <<"}">>,
      <<"{">> \o Id \o <<"}">>,
      <<"{">> \o Id \o <<NL, NL>> \o Id \o <<"}">>,
      <<"{">> \o Id \o <<"{">> \o Id \o <<"}", "}">>,
      Query \o <<SP, "{", NL, SP, SP>> \o Id \o <<NL, "}">>,
      <<"{">> \o Id,
      Foo \o <<"{">> \o Id \o <<"}">>,
      <<"{", "}">>,
      <<>> }

\* contents of a .graphql file
Contents ==
    {lead \o body \o trail : lead \in WsSeqs(MaxLead), body \in Bodies,
                             trail \in WsSeqs(MaxTrail)}

\* contents of the tagged blocks of a host file
DocContents ==
    { <<SP, SP>> \o Query \o <<SP>> \o Foo \o <<"{">> \o Id \o <<"}", NL, SP, SP>>,
      <<NL, SP, SP, "{">> \o Id \o <<"}", NL>>,
      <<NL>> \o Query \o <<SP, "{", NL, SP, SP>> \o Id \o <<NL, "}", NL>>,
      <<SP, NL>>,
      <<SP, "{">> \o Id,
      <<>> }

RECURSIVE hostText(_)
\* a host file holding the blocks of frags, in order
hostText(frags) ==
    IF Len(frags) = 0 THEN <<"x">>
    ELSE <<"x">> \o OpenTag \o frags[1] \o CloseTag \o hostText(Tail(frags))

HostDocs == {hostText(f) : f \in UNION {[1..n -> DocContents] : n \in 0..MaxFrags}}

\* no function of extensionUtils is being exercised on its own
UtilIdle == uOp = "none" /\ uOperation = <<>> /\ uFormatted = <<>> /\ uResult = <<>>

\* the values a loader resolves to: null, undefined, or a RawSchema
NullValue == [type |-> "none", content |-> "null"]
UndefinedValue == [type |-> "none", content |-> "undefined"]
RawSchemas ==
    {[type |-> "json", content |-> c] : c \in {"introspection", "wrapped", "invalid"}}
    \cup {[type |-> "graphql", content |-> c] : c \in {"sdl", "invalid"}}
LoaderResults == {NullValue, UndefinedValue} \cup RawSchemas

\* the state of a promise: pending, resolved with a value, or rejected
Pending == [state |-> "pending", value |-> NullValue]
Returned(v) == [state |-> "returned", value |-> v]
Thrown == [state |-> "thrown", value |-> NullValue]

SchemaIdle ==
    /\ loaders = <<>> /\ readdirOk = TRUE /\ entry = "none" /\ schemaPc = "idle"
    /\ loaderIdx = 0 /\ invoked = <<>> /\ running = {}
    /\ rawSchema = NullValue /\ rawReturn = Pending /\ fullReturn = Pending

AddIdle ==
    /\ addType = "none" /\ addPc = "idle" /\ events = <<>>
    /\ pick = "pending" /\ edited = "pending"

Init ==
    /\ UtilIdle
    /\ SchemaIdle
    /\ AddIdle
    /\ activeTextEditor \in BOOLEAN
    /\ blankFormats \in BOOLEAN
    /\ \/ languageId = "graphql" /\ doc \in Contents
       \/ languageId = "reason" /\ doc \in HostDocs
       \/ languageId = "plaintext" /\ doc \in {hostText(<< <<"{">> \o Id \o <<"}">> >>)}
    /\ pc = "idle"
    /\ sources = <<>>
    /\ idx = 1
    /\ edits = <<>>
    /\ infoMessages = <<>>
    /\ errorMessages = 0
    /\ prettifyCalls = <<>>
    /\ extractCalls = 0
    /\ transactions = 0
    /\ snapshot = doc
    /\ history = <<>>

---------------------------------------------------------------------------
(* formatDocument *)

\* mutant: the end of the range takes the character of the start
replaceTag_endChar(src, i, newContent) ==
    [start |-> src.start,
     end |-> [line |-> src.end.line, character |-> src.start.character],
     text |-> newContent, source |-> i]

\* the edit queued by editBuilder.replace for the source at position i
replaceTag(src, i, newContent) ==
    [start |-> src.start, end |-> src.end, text |-> newContent, source |-> i]

\* new Range(new Position(0, 0), new Position(textDocument.lineCount + 1, 0))
replaceFullDocument(text, i, newContent) ==
    [start |-> [line |-> 0, character |-> 0],
     end |-> [line |-> lineCount(text) + 1, character |-> 0],
     text |-> newContent, source |-> i]

\* mutant: the test of the kind is missing
isEmptyBlock_anyKind(src) == isBlankBlock(src.content)

\* the guard of the empty-block branch of the forEach callback
isEmptyBlock(src) == src.type = "TAG" /\ isBlankBlock(src.content)

\* mutant: the return after the error message is missing
FormatNoEditor_noReturn ==
    /\ pc = "idle" /\ Len(history) < MaxRuns
    /\ ~activeTextEditor
    /\ errorMessages' = 1
    /\ sources' = extractGraphQLSources(languageId, doc)
    /\ extractCalls' = 1 /\ transactions' = 0
    /\ idx' = 1 /\ edits' = <<>>
    /\ infoMessages' = <<>> /\ prettifyCalls' = <<>>
    /\ snapshot' = doc
    /\ pc' = "loop"
    /\ UNCHANGED <<activeTextEditor, languageId, doc, blankFormats, history>>

\* no active editor: the error message, then return
FormatNoEditor ==
    /\ pc = "idle" /\ Len(history) < MaxRuns
    /\ ~activeTextEditor
    /\ errorMessages' = 1
    /\ sources' = <<>> /\ idx' = 1 /\ edits' = <<>>
    /\ infoMessages' = <<>> /\ prettifyCalls' = <<>>
    /\ extractCalls' = 0 /\ transactions' = 0
    /\ snapshot' = doc
    /\ history' = Append(history, doc)
    /\ UNCHANGED <<activeTextEditor, languageId, doc, blankFormats, pc>>

\* an active editor: the sources are extracted and the edit callback starts
FormatStart ==
    /\ pc = "idle" /\ Len(history) < MaxRuns
    /\ activeTextEditor
    /\ sources' = extractGraphQLSources(languageId, doc)
    /\ extractCalls' = 1
    /\ errorMessages' = 0 /\ transactions' = 0
    /\ idx' = 1 /\ edits' = <<>>
    /\ infoMessages' = <<>> /\ prettifyCalls' = <<>>
    /\ snapshot' = doc
    /\ pc' = "loop"
    /\ UNCHANGED <<activeTextEditor, languageId, doc, blankFormats, history>>

\* forEach callback, the empty-block branch: the message, then return
SkipEmptyBlock ==
    /\ pc = "loop" /\ idx <= Len(sources)
    /\ isEmptyBlock(sources[idx])
    /\ infoMessages' = Append(infoMessages, idx)
    /\ idx' = idx + 1
    /\ UNCHANGED <<activeTextEditor, languageId, doc, blankFormats, pc, sources,
                   edits, errorMessages, prettifyCalls, extractCalls,
                   transactions, snapshot, history>>

\* mutant: the try block is around the loop, a failure ends the loop
FormatFailure_abort ==
    /\ pc = "loop" /\ idx <= Len(sources)
    /\ ~isEmptyBlock(sources[idx])
    /\ ~prettify(sources[idx].content).ok
    /\ prettifyCalls' = Append(prettifyCalls, idx)
    /\ idx' = Len(sources) + 1
    /\ UNCHANGED <<activeTextEditor, languageId, doc, blankFormats, pc, sources,
                   edits, infoMessages, errorMessages, extractCalls,
                   transactions, snapshot, history>>

\* forEach callback, prettify throws: caught, nothing else happens
FormatFailure ==
    /\ pc = "loop" /\ idx <= Len(sources)
    /\ ~isEmptyBlock(sources[idx])
    /\ ~prettify(sources[idx].content).ok
    /\ prettifyCalls' = Append(prettifyCalls, idx)
    /\ idx' = idx + 1
    /\ UNCHANGED <<activeTextEditor, languageId, doc, blankFormats, pc, sources,
                   edits, infoMessages, errorMessages, extractCalls,
                   transactions, snapshot, history>>

\* mutant: the prettified text is queued without its padding
ReplaceTag_unpadded ==
    /\ pc = "loop" /\ idx <= Len(sources)
    /\ ~isEmptyBlock(sources[idx])
    /\ prettify(sources[idx].content).ok
    /\ sources[idx].type = "TAG"
    /\ prettifyCalls' = Append(prettifyCalls, idx)
    /\ edits' = Append(edits,
          replaceTag(sources[idx], idx, prettify(sources[idx].content).text))
    /\ idx' = idx + 1
    /\ UNCHANGED <<activeTextEditor, languageId, doc, blankFormats, pc, sources,
                   infoMessages, errorMessages, extractCalls, transactions,
                   snapshot, history>>

\* mutant: each replacement is applied to the document as soon as it is computed
ReplaceTag_immediate ==
    /\ pc = "loop" /\ idx <= Len(sources)
    /\ ~isEmptyBlock(sources[idx])
    /\ prettify(sources[idx].content).ok
    /\ sources[idx].type = "TAG"
    /\ prettifyCalls' = Append(prettifyCalls, idx)
    /\ edits' = Append(edits,
          replaceTag(sources[idx], idx,
              restoreOperationPadding(prettify(sources[idx].content).text,
                                      sources[idx].content)))
    /\ doc' = applyEdits(doc, <<edits'[Len(edits')]>>)
    /\ idx' = idx + 1
    /\ UNCHANGED <<activeTextEditor, languageId, blankFormats, pc, sources,
                   infoMessages, errorMessages, extractCalls, transactions,
                   snapshot, history>>

\* forEach callback, a TAG source is formatted and its replacement queued
ReplaceTag ==
    /\ pc = "loop" /\ idx <= Len(sources)
    /\ ~isEmptyBlock(sources[idx])
    /\ prettify(sources[idx].content).ok
    /\ sources[idx].type = "TAG"
    /\ prettifyCalls' = Append(prettifyCalls, idx)
    /\ edits' = Append(edits,
          replaceTag(sources[idx], idx,
              restoreOperationPadding(prettify(sources[idx].content).text,
                                      sources[idx].content)))
    /\ idx' = idx + 1
    /\ UNCHANGED <<activeTextEditor, languageId, doc, blankFormats, pc, sources,
                   infoMessages, errorMessages, extractCalls, transactions,
                   snapshot, history>>

\* forEach callback, a FULL_DOCUMENT source is formatted and its replacement queued
ReplaceFull ==
    /\ pc = "loop" /\ idx <= Len(sources)
    /\ ~isEmptyBlock(sources[idx])
    /\ prettify(sources[idx].content).ok
    /\ sources[idx].type = "FULL_DOCUMENT"
    /\ prettifyCalls' = Append(prettifyCalls, idx)
    /\ edits' = Append(edits,
          replaceFullDocument(doc, idx,
              restoreOperationPadding(prettify(sources[idx].content).text,
                                      sources[idx].content)))
    /\ idx' = idx + 1
    /\ UNCHANGED <<activeTextEditor, languageId, doc, blankFormats, pc, sources,
                   infoMessages, errorMessages, extractCalls, transactions,
                   snapshot, history>>

\* the edit callback has returned: the queued replacements are applied to the
\* document as one transaction
ApplyEdit ==
    /\ pc = "loop" /\ idx > Len(sources)
    /\ doc' = applyEdits(doc, edits)
    /\ transactions' = transactions + 1
    /\ history' = Append(history, doc')
    /\ pc' = "idle"
    /\ UNCHANGED <<activeTextEditor, languageId, blankFormats, sources, idx, edits,
                   infoMessages, errorMessages, prettifyCalls, extractCalls,
                   snapshot>>

Next ==
    \/ FormatNoEditor /\ UNCHANGED <<utilVars, schemaVars, addVars>>
    \/ FormatStart /\ UNCHANGED <<utilVars, schemaVars, addVars>>
    \/ SkipEmptyBlock /\ UNCHANGED <<utilVars, schemaVars, addVars>>
    \/ FormatFailure /\ UNCHANGED <<utilVars, schemaVars, addVars>>
    \/ ReplaceTag /\ UNCHANGED <<utilVars, schemaVars, addVars>>
    \/ ReplaceFull /\ UNCHANGED <<utilVars, schemaVars, addVars>>
    \/ ApplyEdit /\ UNCHANGED <<utilVars, schemaVars, addVars>>

Spec == Init /\ [][Next]_vars

---------------------------------------------------------------------------
(* The functions of extensionUtils called on their own *)

\* the format command is not running
FormatIdle ==
    /\ activeTextEditor = FALSE /\ languageId = "graphql" /\ doc = <<>>
    /\ pc = "idle" /\ sources = <<>> /\ idx = 1 /\ edits = <<>>
    /\ infoMessages = <<>> /\ errorMessages = 0 /\ prettifyCalls = <<>>
    /\ extractCalls = 0 /\ transactions = 0 /\ snapshot = <<>> /\ history = <<>>

\* operation texts for the single calls: those of the documents, and texts
\* whose first word stands after other text
UtilBodies ==
    Bodies \cup
    { <<"{", SP>> \o Id \o <<"}">>,
      <<"{", NL, SP, SP>> \o Id \o <<NL, "}">>,
      <<"}", SP>> \o Query }

\* the texts passed as operation, initialOperation or str
UtilContents ==
    {lead \o body \o trail : lead \in WsSeqs(MaxLead), body \in UtilBodies,
                             trail \in WsSeqs(MaxTrail)}

\* the texts passed as the formatted operation
FormattedTexts ==
    { <<>>,
      Id,
      <<"{", NL, SP, SP>> \o Id \o <<NL, "}">>,
      Id \o <<NL, NL>> \o Id,
      Id \o <<NL>>,
      <<SP>> \o Id }

InitUtil ==
    /\ FormatIdle
    /\ SchemaIdle
    /\ AddIdle
    /\ blankFormats \in BOOLEAN
    /\ uOp = "none"
    /\ uOperation \in UtilContents
    /\ uFormatted \in FormattedTexts
    /\ uResult = <<>>

\* findOperationPadding(operation)
CallFindOperationPadding ==
    /\ uOp = "none"
    /\ uOp' = "findOperationPadding"
    /\ uResult' = findOperationPadding(uOperation)
    /\ UNCHANGED <<uOperation, uFormatted>>

\* restoreOperationPadding(operation, initialOperation)
CallRestoreOperationPadding ==
    /\ uOp = "none"
    /\ uOp' = "restoreOperationPadding"
    /\ uResult' = restoreOperationPadding(uFormatted, uOperation)
    /\ UNCHANGED <<uOperation, uFormatted>>

\* prettify(str): the returned text, or the error thrown
CallPrettify ==
    /\ uOp = "none"
    /\ uOp' = "prettify"
    /\ uResult' = prettify(uOperation)
    /\ UNCHANGED <<uOperation, uFormatted>>

NextUtil ==
    \/ CallFindOperationPadding /\ UNCHANGED <<formatVars, schemaVars, addVars>>
    \/ CallRestoreOperationPadding /\ UNCHANGED <<formatVars, schemaVars, addVars>>
    \/ CallPrettify /\ UNCHANGED <<formatVars, schemaVars, addVars>>

SpecUtil == InitUtil /\ [][NextUtil]_vars

---------------------------------------------------------------------------
(* loadSchema.ts *)

MaxLoaders == 3

\* the lists of at most n loader outcomes
RECURSIVE LoaderLists(_)
LoaderLists(n) ==
    IF n = 0 THEN {<<>>}
    ELSE LoaderLists(n - 1)
         \cup {Append(l, r) : l \in {x \in LoaderLists(n - 1) : Len(x) = n - 1},
                              r \in LoaderResults}

\* if (loaderResult), if (!rawSchema), rawSchema || null
Truthy(v) == v.type # "none"

\* parseSchema(schema): JSON.parse and buildClientSchema for "json" (the
\* introspection result may be wrapped in data), buildSchema otherwise; both
\* throw on a content they cannot read
parseSchema(schema) ==
    IF schema.type = "json"
    THEN IF schema.content \in {"introspection", "wrapped"}
         THEN [ok |-> TRUE, schema |-> [type |-> "schema", content |-> "introspection"]]
         ELSE [ok |-> FALSE, schema |-> NullValue]
    ELSE IF schema.content = "sdl"
         THEN [ok |-> TRUE, schema |-> [type |-> "schema", content |-> "sdl"]]
         ELSE [ok |-> FALSE, schema |-> NullValue]

InitSchema ==
    /\ FormatIdle
    /\ blankFormats = FALSE
    /\ UtilIdle
    /\ AddIdle
    /\ loaders \in LoaderLists(MaxLoaders)
    /\ readdirOk \in BOOLEAN
    /\ entry = "none" /\ schemaPc = "idle"
    /\ loaderIdx = 0 /\ invoked = <<>> /\ running = {}
    /\ rawSchema = NullValue /\ rawReturn = Pending /\ fullReturn = Pending

\* loadRawSchema(rootPath) called on its own
CallLoadRawSchema ==
    /\ schemaPc = "idle"
    /\ entry' = "raw"
    /\ schemaPc' = "readdir"
    /\ UNCHANGED <<loaders, readdirOk, loaderIdx, invoked, running, rawSchema,
                   rawReturn, fullReturn>>

\* loadFullSchema(rootPath): it starts with await loadRawSchema(rootPath)
CallLoadFullSchema ==
    /\ schemaPc = "idle"
    /\ entry' = "full"
    /\ schemaPc' = "readdir"
    /\ UNCHANGED <<loaders, readdirOk, loaderIdx, invoked, running, rawSchema,
                   rawReturn, fullReturn>>

\* fs.readdirSync(rootPath) throws: loadRawSchema rejects
ReadDirFails ==
    /\ schemaPc = "readdir" /\ ~readdirOk
    /\ rawReturn' = Thrown
    /\ schemaPc' = IF entry = "full" THEN "resume" ELSE "done"
    /\ UNCHANGED <<loaders, readdirOk, entry, loaderIdx, invoked, running,
                   rawSchema, fullReturn>>

\* const filesInRoot = fs.readdirSync(rootPath); let rawSchema = null; i = 0
ReadDir ==
    /\ schemaPc = "readdir" /\ readdirOk
    /\ rawSchema' = NullValue
    /\ loaderIdx' = 0
    /\ schemaPc' = "loop"
    /\ UNCHANGED <<loaders, readdirOk, entry, invoked, running, rawReturn, fullReturn>>

\* i <= loaders.length - 1: loaders[i](rootPath, filesInRoot) is called
InvokeLoader ==
    /\ schemaPc = "loop" /\ loaderIdx <= Len(loaders) - 1
    /\ invoked' = Append(invoked, loaderIdx)
    /\ running' = running \cup {loaderIdx}
    /\ schemaPc' = "await"
    /\ UNCHANGED <<loaders, readdirOk, entry, loaderIdx, rawSchema, rawReturn, fullReturn>>

\* mutant: the loop goes on after a loader gave a schema
LoaderResolves_noBreak ==
    /\ schemaPc = "await"
    /\ running' = running \ {loaderIdx}
    /\ rawSchema' = IF Truthy(loaders[loaderIdx + 1]) THEN loaders[loaderIdx + 1]
                     ELSE rawSchema
    /\ loaderIdx' = loaderIdx + 1
    /\ schemaPc' = "loop"
    /\ UNCHANGED <<loaders, readdirOk, entry, invoked, rawReturn, fullReturn>>

\* the awaited loader resolves: if (loaderResult) { rawSchema = loaderResult;
\* break; } else i += 1
LoaderResolves ==
    /\ schemaPc = "await"
    /\ running' = running \ {loaderIdx}
    /\ IF Truthy(loaders[loaderIdx + 1])
       THEN /\ rawSchema' = loaders[loaderIdx + 1]
            /\ schemaPc' = "return"
            /\ UNCHANGED loaderIdx
       ELSE /\ loaderIdx' = loaderIdx + 1
            /\ schemaPc' = "loop"
            /\ UNCHANGED rawSchema
    /\ UNCHANGED <<loaders, readdirOk, entry, invoked, rawReturn, fullReturn>>

\* i > loaders.length - 1: the loop ends
LoopExit ==
    /\ schemaPc = "loop" /\ loaderIdx > Len(loaders) - 1
    /\ schemaPc' = "return"
    /\ UNCHANGED <<loaders, readdirOk, entry, loaderIdx, invoked, running,
                   rawSchema, rawReturn, fullReturn>>

\* return rawSchema || null
ReturnRaw ==
    /\ schemaPc = "return"
    /\ rawReturn' = Returned(IF Truthy(rawSchema) THEN rawSchema ELSE NullValue)
    /\ schemaPc' = IF entry = "full" THEN "resume" ELSE "done"
    /\ UNCHANGED <<loaders, readdirOk, entry, loaderIdx, invoked, running,
                   rawSchema, fullReturn>>

\* loadFullSchema after its await: the rejection goes on, or
\* if (!rawSchema) return null, or return parseSchema(rawSchema)
ResumeFull ==
    /\ schemaPc = "resume"
    /\ fullReturn' =
          IF rawReturn.state = "thrown" THEN Thrown
          ELSE IF ~Truthy(rawReturn.value) THEN Returned(NullValue)
          ELSE IF parseSchema(rawReturn.value).ok
               THEN Returned(parseSchema(rawReturn.value).schema)
               ELSE Thrown
    /\ schemaPc' = "done"
    /\ UNCHANGED <<loaders, readdirOk, entry, loaderIdx, invoked, running,
                   rawSchema, rawReturn>>

NextSchema ==
    \/ CallLoadRawSchema /\ UNCHANGED <<formatVars, utilVars, addVars>>
    \/ CallLoadFullSchema /\ UNCHANGED <<formatVars, utilVars, addVars>>
    \/ ReadDirFails /\ UNCHANGED <<formatVars, utilVars, addVars>>
    \/ ReadDir /\ UNCHANGED <<formatVars, utilVars, addVars>>
    \/ InvokeLoader /\ UNCHANGED <<formatVars, utilVars, addVars>>
    \/ LoaderResolves /\ UNCHANGED <<formatVars, utilVars, addVars>>
    \/ LoopExit /\ UNCHANGED <<formatVars, utilVars, addVars>>
    \/ ReturnRaw /\ UNCHANGED <<formatVars, utilVars, addVars>>
    \/ ResumeFull /\ UNCHANGED <<formatVars, utilVars, addVars>>

SpecSchema == InitSchema /\ [][NextSchema]_vars

---------------------------------------------------------------------------
(* addGraphQLComponent.ts: addReasonRelayComponent *)

MaxAddLoaders == 2

\* await waitFor(500)
WaitTime == 500

ComponentTypes == {"Fragment", "Query", "Mutation", "Subscription"}

\* a call made by the command
Ev(op, arg) == [op |-> op, arg |-> arg]

InitAdd ==
    /\ activeTextEditor \in BOOLEAN
    /\ languageId = "reason" /\ doc = <<>> /\ blankFormats = FALSE
    /\ pc = "idle" /\ sources = <<>> /\ idx = 1 /\ edits = <<>>
    /\ infoMessages = <<>> /\ errorMessages = 0 /\ prettifyCalls = <<>>
    /\ extractCalls = 0 /\ transactions = 0 /\ snapshot = <<>> /\ history = <<>>
    /\ UtilIdle
    /\ loaders \in LoaderLists(MaxAddLoaders)
    /\ readdirOk \in BOOLEAN
    /\ entry = "none" /\ schemaPc = "idle"
    /\ loaderIdx = 0 /\ invoked = <<>> /\ running = {}
    /\ rawSchema = NullValue /\ rawReturn = Pending /\ fullReturn = Pending
    /\ AddIdle

\* if (!textEditor) { window.showErrorMessage(...); return; }
AddNoEditor ==
    /\ addPc = "idle" /\ ~activeTextEditor
    /\ \E type \in ComponentTypes : addType' = type
    /\ events' = Append(events, Ev("showErrorMessage", 0))
    /\ addPc' = "done"
    /\ UNCHANGED <<pick, edited, schemaVars>>

\* the switch: every case calls quickPickFromSchema, which calls
\* loadFullSchema(workspace.rootPath || "") and window.showQuickPick, and
\* then awaits the pick
AddStart ==
    /\ addPc = "idle" /\ activeTextEditor
    /\ \E type \in ComponentTypes : addType' = type
    /\ events' = Append(events, Ev("loadFullSchema", 0))
    /\ CallLoadFullSchema
    /\ addPc' = "awaitPick"
    /\ UNCHANGED <<pick, edited>>

\* loadFullSchema(...) has given its promise back: it ran up to its first
\* await, that of the first loader, or to the end if it had none to await
SchemaCallReturned ==
    \/ schemaPc \in {"await", "resume", "done"}
    \/ schemaPc \in {"loop", "return"} /\ invoked # <<>>

\* (await result) || "_": an item of the loaded schema is picked, or the pick
\* is dismissed (undefined). Fragment goes on to the template, the other
\* cases to await schemaPromise.then(...)
PickResolves ==
    /\ addPc = "awaitPick" /\ SchemaCallReturned
    /\ \E r \in {"item", "undefined"} :
          /\ r = "item" => fullReturn.state = "returned" /\ Truthy(fullReturn.value)
          /\ pick' = r
    /\ addPc' = IF addType = "Fragment" THEN "edit" ELSE "awaitField"
    /\ UNCHANGED <<addType, events, edited, schemaVars>>

\* the promise of the items is rejected and so is the pick: await result throws
PickRejects ==
    /\ addPc = "awaitPick" /\ fullReturn.state = "thrown"
    /\ pick' = "rejected"
    /\ addPc' = "rejected"
    /\ UNCHANGED <<addType, events, edited, schemaVars>>

\* await schemaPromise.then(schema => ...) gives the field or null
FieldResolves ==
    /\ addPc = "awaitField" /\ fullReturn.state = "returned"
    /\ addPc' = "edit"
    /\ UNCHANGED <<addType, events, pick, edited, schemaVars>>

\* await schemaPromise.then(...) throws: loadFullSchema was rejected
FieldRejects ==
    /\ addPc = "awaitField" /\ fullReturn.state = "thrown"
    /\ addPc' = "rejected"
    /\ UNCHANGED <<addType, events, pick, edited, schemaVars>>

\* getValidModuleName has given the name: textEditor.edit(editBuilder =>
\* editBuilder.insert(selection.active, insert)) is called and awaited
InsertTemplate ==
    /\ addPc = "edit"
    /\ events' = Append(events, Ev("insert", 0))
    /\ addPc' = "awaitEdit"
    /\ UNCHANGED <<addType, pick, edited, schemaVars>>

\* the edit has settled: the selection is moved, textDocument.save() is
\* called and awaited; a rejected edit leaves the command by its exception
SaveFirst ==
    /\ addPc = "awaitEdit"
    /\ \/ /\ events' = Append(events, Ev("save", 0))
          /\ addPc' = "awaitSave"
       \/ /\ addPc' = "rejected"
          /\ UNCHANGED events
    /\ UNCHANGED <<addType, pick, edited, schemaVars>>

\* the first save has settled:
\* commands.executeCommand("vscode-graphiql-explorer.edit") is called and
\* awaited; a rejected save leaves the command
ExplorerEdit ==
    /\ addPc = "awaitSave"
    /\ \/ /\ events' = Append(events, Ev("executeCommand", 0))
          /\ addPc' = "awaitExplorer"
       \/ /\ addPc' = "rejected"
          /\ UNCHANGED events
    /\ UNCHANGED <<addType, pick, edited, schemaVars>>

\* the explorer command has settled: if (edited) the second save is called and
\* awaited, otherwise the command returns; a rejection leaves the command
ExplorerSettles ==
    /\ addPc = "awaitExplorer"
    /\ \E r \in {"true", "false", "rejected"} :
          /\ edited' = r
          /\ events' = IF r = "true" THEN Append(events, Ev("save", 0)) ELSE events
          /\ addPc' = CASE r = "true" -> "awaitSaveAgain"
                         [] r = "false" -> "done"
                         [] OTHER -> "rejected"
    /\ UNCHANGED <<addType, pick, schemaVars>>

\* the second save has settled: waitFor(500) is called and awaited; a
\* rejected save leaves the command
WaitForCompiler ==
    /\ addPc = "awaitSaveAgain"
    /\ \/ /\ events' = Append(events, Ev("waitFor", WaitTime))
          /\ addPc' = "awaitTimer"
       \/ /\ addPc' = "rejected"
          /\ UNCHANGED events
    /\ UNCHANGED <<addType, pick, edited, schemaVars>>

\* the timer has fired: the third save is called and awaited
SaveThird ==
    /\ addPc = "awaitTimer"
    /\ events' = Append(events, Ev("save", 0))
    /\ addPc' = "awaitSaveLast"
    /\ UNCHANGED <<addType, pick, edited, schemaVars>>

\* the third save has settled: the command returns, or is left by the
\* exception of a rejected save
AddReturns ==
    /\ addPc = "awaitSaveLast"
    /\ addPc' \in {"done", "rejected"}
    /\ UNCHANGED <<addType, events, pick, edited, schemaVars>>

NextAdd ==
    \/ AddNoEditor /\ UNCHANGED <<formatVars, utilVars>>
    \/ AddStart /\ UNCHANGED <<formatVars, utilVars>>
    \/ ReadDirFails /\ UNCHANGED <<formatVars, utilVars, addVars>>
    \/ ReadDir /\ UNCHANGED <<formatVars, utilVars, addVars>>
    \/ InvokeLoader /\ UNCHANGED <<formatVars, utilVars, addVars>>
    \/ LoaderResolves /\ UNCHANGED <<formatVars, utilVars, addVars>>
    \/ LoopExit /\ UNCHANGED <<formatVars, utilVars, addVars>>
    \/ ReturnRaw /\ UNCHANGED <<formatVars, utilVars, addVars>>
    \/ ResumeFull /\ UNCHANGED <<formatVars, utilVars, addVars>>
    \/ PickResolves /\ UNCHANGED <<formatVars, utilVars>>
    \/ PickRejects /\ UNCHANGED <<formatVars, utilVars>>
    \/ FieldResolves /\ UNCHANGED <<formatVars, utilVars>>
    \/ FieldRejects /\ UNCHANGED <<formatVars, utilVars>>
    \/ InsertTemplate /\ UNCHANGED <<formatVars, utilVars>>
    \/ SaveFirst /\ UNCHANGED <<formatVars, utilVars>>
    \/ ExplorerEdit /\ UNCHANGED <<formatVars, utilVars>>
    \/ ExplorerSettles /\ UNCHANGED <<formatVars, utilVars>>
    \/ WaitForCompiler /\ UNCHANGED <<formatVars, utilVars>>
    \/ SaveThird /\ UNCHANGED <<formatVars, utilVars>>
    \/ AddReturns /\ UNCHANGED <<formatVars, utilVars>>

SpecAdd == InitAdd /\ [][NextAdd]_vars

---------------------------------------------------------------------------
(* Vocabulary of the properties *)

\* an invocation with an active editor has run to its end
Done == pc = "idle" /\ activeTextEditor /\ Len(history) > 0

\* the elements of a sequence
Range(seq) == {seq[k] : k \in 1..Len(seq)}

\* the queued edits that replace the source at position j
EditsOf(j) == {k \in 1..Len(edits) : edits[k].source = j}

\* every character of c is a space or a line break, and there is at least one
AllWhitespace(c) == Len(c) > 0 /\ \A k \in 1..Len(c) : c[k] \in {SP, NL, "\t", "\r"}

\* position of the first character of c that is not whitespace (Len(c) + 1 if none)
FirstInk(c) ==
    IF \A k \in 1..Len(c) : IsSpace(c[k]) THEN Len(c) + 1
    ELSE CHOOSE k \in 1..Len(c) : ~IsSpace(c[k]) /\ \A m \in 1..(k - 1) : IsSpace(c[m])

\* position of the last character of c that is not whitespace (0 if none)
LastInk(c) ==
    IF \A k \in 1..Len(c) : IsSpace(c[k]) THEN 0
    ELSE CHOOSE k \in 1..Len(c) : ~IsSpace(c[k]) /\ \A m \in (k + 1)..Len(c) : IsSpace(c[m])

\* k: the number of spaces that indent the first line of c that holds text
IndentOf(c) ==
    Cardinality({k \in 1..(FirstInk(c) - 1) : \A m \in k..(FirstInk(c) - 1) : c[m] = SP})

\* T: the whitespace that ends c
TrailOf(c) == SubSeq(c, LastInk(c) + 1, Len(c))

\* c is syntactically valid GraphQL: it holds text and the formatter accepts it
ValidGraphQL(c) == LastInk(c) > 0 /\ prettify(c).ok

\* position a is at or before position b
PosLE(a, b) == a.line < b.line \/ (a.line = b.line /\ a.character <= b.character)

---------------------------------------------------------------------------
(* Properties *)

\* C1: round trip.  For every valid content c whose first line of text is
\* indented by k spaces and which ends in the whitespace T, the replacement
\* restoreOperationPadding(prettify(c), c) is a line break, then prettify(c)
\* with every line prefixed by k spaces, then T; also when the first character
\* of c that is not whitespace is not a word character.
C1_RoundTrip ==
    \A j \in 1..Len(edits) :
        LET c == sources[edits[j].source].content IN
        ValidGraphQL(c) =>
            edits[j].text =
                <<NL>> \o padOperation(prettify(c).text, IndentOf(c)) \o TrailOf(c)

\* C2: idempotence of the command.  Running formatDocument again on the
\* document it produced leaves the text as the first run left it.
C2_Idempotent ==
    \A n \in 2..Len(history) : history[n] = history[n - 1]

\* C3 as stated: no source whose content is only whitespace, of either kind,
\* is passed to prettify or gets a replacement.
C3_BlankAnyKindSkipped ==
    \A j \in 1..Len(sources) :
        AllWhitespace(sources[j].content) =>
            j \notin Range(prettifyCalls) /\ EditsOf(j) = {}

\* C3 amended: no TAG source whose content is only whitespace is passed to
\* prettify or gets a replacement.
C3_BlankTagSkipped ==
    \A j \in 1..Len(sources) :
        sources[j].type = "TAG" /\ AllWhitespace(sources[j].content) =>
            j \notin Range(prettifyCalls) /\ EditsOf(j) = {}

\* a blank TAG block has been passed over while other blocks were replaced
C3_Witness ==
    /\ Done
    /\ \E j \in 1..Len(sources) :
          sources[j].type = "TAG" /\ AllWhitespace(sources[j].content)
    /\ Len(edits) > 0

\* prettify was called on the source at position j and threw
Failed(j) == j \in Range(prettifyCalls) /\ ~prettify(sources[j].content).ok

\* the source at position j has been handled by the forEach callback
Processed(j) == j \in Range(prettifyCalls) \/ j \in Range(infoMessages)

\* C4: a source for which prettify fails gets no replacement and no message,
\* the loop goes on to every source after it, and the replacements queued for
\* the sources before it stay queued.
C4_FailureContained ==
    \A j \in 1..Len(sources) :
        Failed(j) =>
            /\ EditsOf(j) = {}
            /\ j \notin Range(infoMessages)
            /\ errorMessages = 0
            /\ idx > j
            /\ \A m \in (j + 1)..(idx - 1) : Processed(m)
            /\ pc = "idle" => idx = Len(sources) + 1
            /\ \A m \in 1..(j - 1) : ValidGraphQL(sources[m].content) => EditsOf(m) # {}

\* a malformed source between two sources that were replaced
C4_Witness ==
    /\ Done
    /\ \E j \in 1..Len(sources) :
          /\ Failed(j)
          /\ \E m \in 1..(j - 1) : EditsOf(m) # {}
          /\ \E m \in (j + 1)..Len(sources) : EditsOf(m) # {}

\* C5: every extracted source whose content is valid GraphQL gets exactly one
\* replacement, whose text is restoreOperationPadding(prettify(content),
\* content), whatever empty or malformed sources stand before or after it.
C5_EveryValidReplaced ==
    /\ \A j \in 1..Len(sources) :
          j < idx /\ ValidGraphQL(sources[j].content) =>
              /\ Cardinality(EditsOf(j)) = 1
              /\ \A k \in EditsOf(j) :
                    edits[k].text =
                        restoreOperationPadding(prettify(sources[j].content).text,
                                                sources[j].content)
    /\ Done => idx = Len(sources) + 1

\* a valid source after an empty block and before a malformed one was replaced
C5_Witness ==
    /\ Done
    /\ \E j \in 1..Len(sources) :
          /\ ValidGraphQL(sources[j].content) /\ EditsOf(j) # {}
          /\ \E m \in 1..(j - 1) : m \in Range(infoMessages)
          /\ \E m \in (j + 1)..Len(sources) : Failed(m)

\* C6: the range of each replacement of a TAG source is that source's
\* (start, end) in the text the invocation started on, the ranges do not
\* overlap when the sources do not, and after the transaction every block
\* holds its own replacement (or its old content) whatever happened to the
\* other blocks.
C6_RangesFromSnapshot ==
    LET extracted == extractGraphQLSources(languageId, snapshot) IN
    /\ \A k \in 1..Len(edits) :
          sources[edits[k].source].type = "TAG" =>
              /\ edits[k].start = extracted[edits[k].source].start
              /\ edits[k].end = extracted[edits[k].source].end
    /\ (\A a, b \in 1..Len(sources) :
            a < b => PosLE(sources[a].end, sources[b].start))
       => \A a, b \in 1..Len(edits) : a < b => PosLE(edits[a].end, edits[b].start)
    /\ Done /\ languageId = "reason" =>
          LET after == extractGraphQLSources(languageId, doc) IN
          /\ Len(after) = Len(sources)
          /\ \A j \in 1..Len(sources) :
                after[j].content =
                    IF EditsOf(j) = {} THEN sources[j].content
                    ELSE edits[CHOOSE k \in EditsOf(j) : TRUE].text

\* two blocks were replaced, the first by a text of another length
C6_Witness ==
    /\ Done /\ languageId = "reason"
    /\ Len(edits) >= 2
    /\ Len(edits[1].text) # Len(sources[edits[1].source].content)
    /\ doc # snapshot

\* C7: the document is changed by one transaction, after the callback has
\* handled every source: while sources are still being handled the document
\* is the text the invocation started on.
C7_SingleTransaction ==
    /\ pc = "loop" => doc = snapshot /\ transactions = 0
    /\ doc # snapshot => pc = "idle" /\ idx = Len(sources) + 1
    /\ Done => transactions = 1

\* an invocation replaced two blocks in its one transaction
C7_Witness ==
    Done /\ Len(edits) >= 2 /\ transactions = 1 /\ doc # snapshot

\* C8: without an active editor the command shows the error and stops: no
\* extraction, no prettify, no transaction.  With an editor nothing stops the
\* command: it handles every source and applies its transaction.
C8_NoEditorAborts ==
    /\ ~activeTextEditor =>
          /\ extractCalls = 0 /\ prettifyCalls = <<>> /\ edits = <<>>
          /\ transactions = 0 /\ pc = "idle" /\ doc = snapshot
          /\ Len(history) > 0 => errorMessages = 1
    /\ activeTextEditor =>
          /\ errorMessages = 0
          /\ Done => extractCalls = 1 /\ idx = Len(sources) + 1 /\ transactions = 1

\* the command has been run without an active editor
C8_Witness ==
    ~activeTextEditor /\ Len(history) > 0 /\ errorMessages = 1

\* C9: a handled source gets the information message once when it is a TAG
\* block of whitespace, and then no replacement; the message is shown for no
\* other source, and the loop goes on.
C9_EmptyBlockMessage ==
    /\ \A j \in 1..Len(sources) :
          LET blankTag == sources[j].type = "TAG" /\ AllWhitespace(sources[j].content)
          IN  /\ Cardinality({k \in 1..Len(infoMessages) : infoMessages[k] = j})
                    = IF j < idx /\ blankTag THEN 1 ELSE 0
              /\ blankTag => EditsOf(j) = {}
    /\ Done => idx = Len(sources) + 1

\* the message was shown for a block and a later block was replaced
C9_Witness ==
    /\ Done
    /\ \E j \in 1..Len(sources) :
          /\ j \in Range(infoMessages)
          /\ \E m \in (j + 1)..Len(sources) : EditsOf(m) # {}

\* C10: for a FULL_DOCUMENT source the file becomes the prettified text
\* followed by the trailing whitespace of the old content, nothing else.
C10_FullDocumentText ==
    Done /\ languageId = "graphql" /\ EditsOf(1) # {} =>
        doc = prettify(snapshot).text \o TrailOf(snapshot)

\* position of the first word character of c (Len(c) + 1 if none)
FirstWord(c) ==
    IF \A k \in 1..Len(c) : ~IsWord(c[k]) THEN Len(c) + 1
    ELSE CHOOSE k \in 1..Len(c) : IsWord(c[k]) /\ \A m \in 1..(k - 1) : ~IsWord(c[m])

\* number of whitespace characters that stand directly before position p of c
\* on the line of p
LineRunBefore(c, p) ==
    Cardinality({k \in 1..(p - 1) : \A m \in k..(p - 1) : IsSpace(c[m]) /\ c[m] # NL})

\* C11 as stated: findOperationPadding returns the length, after its last line
\* break, of the whitespace run before the first word character found anywhere
\* in the content, and 0 only when no word character has such a run.
C11_PaddingOfFirstWordAnywhere ==
    uOp = "findOperationPadding" =>
        uResult = IF FirstWord(uOperation) > Len(uOperation) THEN 0
                  ELSE LineRunBefore(uOperation, FirstWord(uOperation))

\* C11 amended: the run is the whitespace the content starts with, and it
\* counts only when a word character follows it directly; otherwise the
\* result is 0.
C11_PaddingOfLeadingWord ==
    uOp = "findOperationPadding" =>
        uResult = IF FirstInk(uOperation) <= Len(uOperation)
                     /\ IsWord(uOperation[FirstInk(uOperation)])
                  THEN LineRunBefore(uOperation, FirstInk(uOperation))
                  ELSE 0

\* the padding of a content that starts with several lines of whitespace
C11_Witness ==
    /\ uOp = "findOperationPadding"
    /\ uResult > 0
    /\ \E k \in 1..(FirstInk(uOperation) - 1) : uOperation[k] = NL
    /\ uOperation[1] = SP

\* number of line breaks of text before position k
BreaksBefore(text, k) == Cardinality({m \in 1..(k - 1) : text[m] = NL})

\* padded is formatted with n spaces put in front of each of its lines:
\* character k of formatted stands n spaces further for each line started
\* up to k, and nothing but those spaces is added
IsPadded(padded, formatted, n) ==
    LET at(k) == k + n * (BreaksBefore(formatted, k) + 1)
        lines == BreaksBefore(formatted, Len(formatted) + 1) + 1
    IN  /\ Len(padded) = Len(formatted) + n * lines
        /\ \A k \in 1..Len(formatted) : padded[at(k)] = formatted[k]
        /\ \A j \in 1..Len(padded) :
              (\A k \in 1..Len(formatted) : at(k) # j) => padded[j] = SP
        /\ BreaksBefore(padded, Len(padded) + 1) + 1 = lines

\* C12: restoreOperationPadding(formatted, originalContent) is one line break,
\* then formatted with each line (blank ones too) prefixed by
\* findOperationPadding(originalContent) spaces, then the maximal whitespace
\* suffix of originalContent, once.
C12_RestoredShape ==
    uOp = "restoreOperationPadding" =>
        LET n == findOperationPadding(uOperation)
            tail == TrailOf(uOperation)
            body == SubSeq(uResult, 2, Len(uResult) - Len(tail))
        IN  /\ Len(uResult) >= 1 + Len(tail)
            /\ uResult[1] = NL
            /\ IsPadded(body, uFormatted, n)
            /\ SubSeq(uResult, Len(uResult) - Len(tail) + 1, Len(uResult)) = tail

\* a text with a blank line restored with a positive padding and a trailing
\* whitespace
C12_Witness ==
    /\ uOp = "restoreOperationPadding"
    /\ findOperationPadding(uOperation) > 0
    /\ \E k \in 1..(Len(uFormatted) - 1) : uFormatted[k] = NL /\ uFormatted[k + 1] = NL
    /\ Len(TrailOf(uOperation)) > 0

\* a whitespace-only original: its whole text is appended once
C12_WitnessBlank ==
    /\ uOp = "restoreOperationPadding"
    /\ AllWhitespace(uOperation)
    /\ Len(uFormatted) > 0
    /\ uResult = <<NL>> \o uFormatted \o uOperation

\* t is text without the whitespace it starts and ends with
IsTrimOf(t, text) ==
    /\ Len(t) > 0 => ~IsSpace(t[1]) /\ ~IsSpace(t[Len(t)])
    /\ \E a \in 0..Len(text) :
          /\ a + Len(t) <= Len(text)
          /\ SubSeq(text, a + 1, a + Len(t)) = t
          /\ \A k \in 1..a : IsSpace(text[k])
          /\ \A k \in (a + Len(t) + 1)..Len(text) : IsSpace(text[k])

\* C13: prettify(content) fails exactly when the formatter fails; otherwise
\* it returns the formatter's output without its leading and trailing
\* whitespace: no whitespace at either end, the text between unchanged.
C13_PrettifyTrims ==
    uOp = "prettify" =>
        LET r == prettierFormat(uOperation)
        IN  IF r.ok
            THEN uResult.ok /\ IsTrimOf(uResult.text, r.text)
            ELSE uResult = Failure

\* a formatted text of several lines whose final line break was removed
C13_Witness ==
    /\ uOp = "prettify"
    /\ uResult.ok
    /\ \E k \in 1..Len(uResult.text) : uResult.text[k] = NL
    /\ prettierFormat(uOperation).text = uResult.text \o <<NL>>

\* a text the formatter rejects: the error is the result
C13_WitnessError ==
    /\ uOp = "prettify"
    /\ ~prettierFormat(uOperation).ok
    /\ uResult = Failure

\* the index of the first loader that gives a schema (Len(loaders) if none)
FirstYielding ==
    IF \A k \in 1..Len(loaders) : ~Truthy(loaders[k]) THEN Len(loaders)
    ELSE (CHOOSE k \in 1..Len(loaders) :
              Truthy(loaders[k]) /\ \A m \in 1..(k - 1) : ~Truthy(loaders[m])) - 1

\* C14: the loaders are invoked one at a time in list order, none after the
\* first that gives a schema; loadRawSchema returns that schema, or null when
\* every loader gave nothing; loadFullSchema returns null exactly when
\* loadRawSchema does.
C14_FirstLoaderWins ==
    /\ \A k \in 1..Len(invoked) : invoked[k] = k - 1
    /\ Len(invoked) <= FirstYielding + 1
    /\ Cardinality(running) <= 1
    /\ \A k \in running : k = invoked[Len(invoked)]
    /\ rawReturn.state = "returned" =>
          /\ running = {}
          /\ IF FirstYielding < Len(loaders)
             THEN /\ rawReturn.value = loaders[FirstYielding + 1]
                  /\ Len(invoked) = FirstYielding + 1
             ELSE /\ rawReturn.value = NullValue
                  /\ Len(invoked) = Len(loaders)
    /\ fullReturn.state = "returned" =>
          /\ rawReturn.state = "returned"
          /\ (fullReturn.value = NullValue) <=> (rawReturn.value = NullValue)
    /\ (entry = "full" /\ schemaPc = "done" /\ rawReturn = Returned(NullValue))
          => fullReturn = Returned(NullValue)

\* loadFullSchema gave the schema of the second loader, a third loader that
\* would give one too was not invoked
C14_Witness ==
    /\ entry = "full"
    /\ fullReturn.state = "returned" /\ fullReturn.value # NullValue
    /\ Len(loaders) = 3 /\ Truthy(loaders[3])
    /\ FirstYielding = 1
    /\ invoked = <<0, 1>>

\* every loader gave nothing: both functions return null
C14_WitnessNull ==
    /\ entry = "full"
    /\ Len(loaders) >= 2
    /\ invoked = [k \in 1..Len(loaders) |-> k - 1]
    /\ rawReturn = Returned(NullValue)
    /\ fullReturn = Returned(NullValue)

\* the positions in events of the calls of op
CallsOf(op) == {k \in 1..Len(events) : events[k].op = op}

\* the invocation is over: it returned, or it was left by an exception
AddFinished == addPc \in {"done", "rejected"}

\* what holds of the calls made so far: at most one insert, no save before
\* it, the explorer command only after a save, the wait between the second
\* and the third save
AddOrder ==
    /\ Cardinality(CallsOf("insert")) <= 1
    /\ \A k \in CallsOf("save") : \E j \in CallsOf("insert") : j < k
    /\ \A k \in CallsOf("executeCommand") : \E j \in CallsOf("save") : j < k
    /\ \A k \in CallsOf("waitFor") :
          /\ events[k].arg = WaitTime
          /\ Cardinality({j \in CallsOf("save") : j < k}) = 2
    /\ Cardinality(CallsOf("waitFor")) <= 1
    /\ Cardinality(CallsOf("save")) = 3 => Cardinality(CallsOf("waitFor")) = 1

\* C15: without an active editor the command shows an error and loads no
\* schema, inserts nothing and saves nothing. With one, the template is
\* inserted exactly once, before the first save, the explorer command runs
\* only after that save, and the document is saved once if the explorer
\* reports no edit and three times if it reports one, the wait standing
\* between the second and the third save.
C15_InsertOnceThenSaves ==
    /\ ~activeTextEditor =>
          /\ entry = "none"
          /\ CallsOf("loadFullSchema") \cup CallsOf("insert") \cup CallsOf("save") = {}
          /\ AddFinished => events = <<Ev("showErrorMessage", 0)>>
    /\ AddOrder
    /\ (activeTextEditor /\ AddFinished) =>
          /\ Cardinality(CallsOf("insert")) = 1
          /\ edited = "false" => Cardinality(CallsOf("save")) = 1
          /\ edited = "true" => Cardinality(CallsOf("save")) = 3

\* the same for the invocations that return (no awaited promise was rejected)
C15_WhenNothingFails ==
    /\ ~activeTextEditor =>
          /\ entry = "none"
          /\ CallsOf("loadFullSchema") \cup CallsOf("insert") \cup CallsOf("save") = {}
          /\ AddFinished => events = <<Ev("showErrorMessage", 0)>>
    /\ AddOrder
    /\ (activeTextEditor /\ addPc = "done") =>
          /\ Cardinality(CallsOf("insert")) = 1
          /\ edited = "false" => Cardinality(CallsOf("save")) = 1
          /\ edited = "true" => Cardinality(CallsOf("save")) = 3

\* a query component asked for with an editor, the schema load failed: the
\* command ended without insert and without save
C15_AbortedBySchema ==
    /\ activeTextEditor /\ addType = "Query" /\ addPc = "rejected"
    /\ fullReturn = Thrown /\ ~readdirOk
    /\ CallsOf("insert") = {} /\ CallsOf("save") = {}

\* the explorer reported an edit: three saves, the wait before the last
C15_ThreeSaves ==
    /\ addPc = "done" /\ edited = "true"
    /\ Cardinality(CallsOf("save")) = 3

===========================================================================
